---------------------------- MODULE Spec2Model ----------------------------
(* A model of src/app.py, the TCPL ticket dashboard: one top-to-bottom run *)
(* of the script (load, filter widgets, date normalisation, filtering,     *)
(* KPIs) and the rerun the framework starts on the next interaction.       *)
(*                                                                         *)
(* Text is a sequence of character codes, so that lower-casing, substring  *)
(* search and lexicographic sorting are computed, not looked up.  A cell   *)
(* that may be missing is <<>> (missing) or <<v>> (present).  A timestamp  *)
(* is <<h>>, h a number of hours; day d at midnight is d * HoursPerDay.    *)
EXTENDS Integers, Sequences, FiniteSets

VARIABLES file, df, dfCols, opts, sel, daterange, start_date, end_date,
          filtered, warned, kpi, pc

vars == <<file, df, dfCols, opts, sel, daterange, start_date, end_date,
          filtered, warned, kpi, pc>>

-----------------------------------------------------------------------------
(* Bounds of the model *)

\* longest sheet without a Created Time column
MaxRows == 3
\* longest sheet with a Created Time column
MaxDatedRows == 1
\* calendar days 1..MaxDay appear in the sheet and in the date widget
MaxDay == 2

HoursPerDay == 24

-----------------------------------------------------------------------------
(* Text values *)

T_empty == <<>>                            \* ""
T_nan == <<110,97,110>>                    \* "nan"
T_NAN == <<78,65,78>>                      \* "NAN"
T_P1 == <<80,49>>                          \* "P1"
T_BugTech == <<66,117,103,32,40,84,101,99,104,41>>  \* "Bug (Tech)"
T_DataCorrectionTech == <<68,97,116,97,32,67,111,114,114,101,99,116,105,111,110,32,40,84,101,99,104,41>>  \* "Data Correction (Tech)"
T_DataCorrection == <<68,97,116,97,32,67,111,114,114,101,99,116,105,111,110>>  \* "Data Correction"
T_ConfigLong == <<67,111,110,102,105,103,117,114,97,116,105,111,110,32,38,32,77,97,115,116,101,114,32,85,112,100,97,116,101,32,40,78,111,110,45,84,101,99,104,41>>  \* "Configuration & Master Update (Non-Tech)"
T_ConfigShort == <<67,111,110,102,105,103,32,38,32,77,97,115,116,101,114>>  \* "Config & Master"
T_InfoLong == <<78,111,116,32,97,32,84,97,115,107,32,40,73,110,102,111,32,79,110,108,121,41>>  \* "Not a Task (Info Only)"
T_InfoShort == <<73,110,102,111,32,79,110,108,121>>  \* "Info Only"
T_WithinSLA == <<87,105,116,104,105,110,32,83,76,65>>  \* "Within SLA"
T_withinsla == <<119,105,116,104,105,110,32,115,108,97>>  \* "within sla"
T_SLAViolated == <<83,76,65,32,86,105,111,108,97,116,101,100>>  \* "SLA Violated"
T_Closed == <<67,108,111,115,101,100>>     \* "Closed"
T_AfterShift == <<65,102,116,101,114,32,83,104,105,102,116>>  \* "After Shift"
T_WithinShift == <<87,105,116,104,105,110,32,83,104,105,102,116>>  \* "Within Shift"
T_Within == <<87,105,116,104,105,110>>     \* "Within"

\* str.lower() on one character (ASCII letters)
LowerChar(c) == IF c >= 65 /\ c <= 90 THEN c + 32 ELSE c

\* str.lower()
Lower(s) == [i \in 1..Len(s) |-> LowerChar(s[i])]

\* whether pat occurs in s as a contiguous substring
Contains(s, pat) ==
    \E i \in 0..(Len(s) - Len(pat)) :
        \A j \in 1..Len(pat) : s[i + j] = pat[j]

\* a variant of ContainsNoCase that leaves out case=False
ContainsNoCase_CaseSensitive(s, pat) == Contains(s, pat)

\* Series.str.contains(pat, case=False, na=False) on one text cell
ContainsNoCase(s, pat) == Contains(Lower(s), Lower(pat))

\* Python's str "<": code-point lexicographic order
RECURSIVE TextLess(_, _)
TextLess(a, b) ==
    IF b = <<>> THEN FALSE
    ELSE IF a = <<>> THEN TRUE
    ELSE IF a[1] # b[1] THEN a[1] < b[1]
    ELSE TextLess(Tail(a), Tail(b))

\* sorted() of a collection whose elements are the set S
RECURSIVE Sorted(_)
Sorted(S) ==
    IF S = {} THEN <<>>
    ELSE LET m == CHOOSE x \in S : \A y \in S \ {x} : TextLess(x, y)
         IN <<m>> \o Sorted(S \ {m})

Range(s) == {s[i] : i \in 1..Len(s)}

-----------------------------------------------------------------------------
(* The sheet as pd.read_excel returns it (column names already stripped) *)

Missing == <<>>
Some(v) == <<v>>

CategoricalCols == {"Priority", "TicketType", "Resolution Status", "Shift Timing", "Status"}

\* the columns the five multiselects filter on
FilterCols == {"Priority", "TicketTypeShort", "Resolution Status", "Status", "Shift Timing"}

Days == 1..MaxDay
TimesOfDay == {0, 10}
\* a timestamp value and the hours it stands for
Time(h) == <<h>>
Hours(t) == t[1]
Timestamps == {Time(d * HoursPerDay + h) : d \in Days, h \in TimesOfDay}

\* the cells a sheet may hold in each column
CellsOf(col) ==
    CASE col = "Priority" -> {Missing, Some(T_P1)}
      [] col = "TicketType" -> {Some(T_DataCorrectionTech), Some(T_DataCorrection), Some(T_BugTech)}
      [] col = "Resolution Status" -> {Some(T_WithinSLA), Some(T_SLAViolated), Some(T_withinsla)}
      [] col = "Status" -> {Some(T_Closed), Some(T_NAN)}
      [] col = "Shift Timing" -> {Some(T_WithinShift), Some(T_AfterShift)}
      [] col = "Created Time" -> {Missing} \cup {Some(t) : t \in Timestamps}

\* the column sets of the sheets explored
ColumnSets ==
    { {"Priority", "TicketType"},
      {"Resolution Status", "Status"},
      {"Shift Timing", "Created Time"} }

RowsOver(cols) == {r \in [cols -> UNION {CellsOf(c) : c \in cols}] :
                      \A c \in cols : r[c] \in CellsOf(c)}

RowCap(cols) == IF "Created Time" \in cols THEN MaxDatedRows ELSE MaxRows

SeqsUpTo(S, n) == UNION {[1..k -> S] : k \in 0..n}

-----------------------------------------------------------------------------
(* Data loading, lines 40-78.  The derived columns no operation below     *)
(* reads (Created Date, Created Month, Resolution (hrs)) are left out.     *)

NaT == Missing

\* pd.to_datetime(column, errors="coerce") on one cell: a cell that holds
\* no timestamp becomes NaT
ParseTime(cell) == IF cell = Missing THEN NaT ELSE cell

\* Series.astype(str) on one cell: str(value); a missing cell (NaN) is
\* rendered as the text "nan" and is no longer missing
AsTypeStr(cell) == IF cell = Missing THEN Some(T_nan) ELSE cell

\* Series.fillna(v) on one cell: only a still-missing cell takes v
FillNa(cell, v) == IF cell = Missing THEN v ELSE cell[1]

\* lines 66-69 on one cell; absent says the column is not in the sheet
EnsureString(row, col, absent) ==
    FillNa(AsTypeStr(IF absent THEN Missing ELSE row[col]), T_empty)

\* tickettype_map, lines 72-77, as Series.map applies it: no key, no value
tickettype_map(t) ==
    CASE t = T_ConfigLong -> Some(T_ConfigShort)
      [] t = T_BugTech -> Some(T_BugTech)
      [] t = T_DataCorrectionTech -> Some(T_DataCorrection)
      [] t = T_InfoLong -> Some(T_InfoShort)
      [] OTHER -> Missing

\* line 78
TicketTypeShort(t) == FillNa(tickettype_map(t), t)

LoadedCols(f) == f.cols \cup CategoricalCols \cup {"TicketTypeShort"}

LoadRow(f, i) ==
    LET row == f.rows[i]
        str == [c \in CategoricalCols |-> EnsureString(row, c, c \notin f.cols)]
    IN [index |-> i,
        cells |-> [c \in LoadedCols(f) |->
                    IF c \in CategoricalCols THEN str[c]
                    ELSE IF c = "TicketTypeShort" THEN TicketTypeShort(str["TicketType"])
                    ELSE IF c = "Created Time" THEN ParseTime(row[c])
                    ELSE row[c]]]

LoadFrame(f) == [i \in 1..Len(f.rows) |-> LoadRow(f, i)]

-----------------------------------------------------------------------------
(* Filter widgets, lines 80-110 *)

\* Series.unique() as a set
Unique(tbl, col) == {tbl[i].cells[col] : i \in 1..Len(tbl)}

\* a variant of Options that compares with "nan" without lower-casing
Options_NoLower(tbl, col) ==
    Sorted({p \in Unique(tbl, col) : p # T_empty /\ p # T_nan})

\* lines 85, 89, 93, 97, 101: the option list of one multiselect
Options(tbl, col) ==
    Sorted({p \in Unique(tbl, col) : p # T_empty /\ Lower(p) # T_nan})

\* st.multiselect returns a selection among the options it offers
Choices(tbl, col) == SUBSET Range(Options(tbl, col))

\* one endpoint a date widget (or any caller) may hand over
NoneValue == [k |-> "none", v |-> <<>>]
DateValue(d) == [k |-> "date", v |-> <<d>>]
\* a text no timestamp can be parsed from
TextValue == [k |-> "text", v |-> <<>>]
FalseValue == [k |-> "false", v |-> <<>>]
Endpoints == {NoneValue, TextValue, FalseValue} \cup {DateValue(d) : d \in Days}

\* what the date input can deliver: nothing, a list of up to two endpoints,
\* a tuple of up to two dates (st.date_input's range form), or one value
DateInputs ==
    {[form |-> "none", items |-> <<>>]}
    \cup {[form |-> "list", items |-> s] : s \in SeqsUpTo(Endpoints, 2)}
    \cup {[form |-> "tuple", items |-> s] : s \in SeqsUpTo({DateValue(d) : d \in Days}, 2)}
    \cup {[form |-> "scalar", items |-> <<e>>] : e \in Endpoints \ {NoneValue}}

-----------------------------------------------------------------------------
(* Date normalisation, lines 112-125 *)

TupleValue(items) == [k |-> "tuple", v |-> [i \in 1..Len(items) |-> items[i].v[1]]]
TimestampValue(t) == [k |-> "ts", v |-> <<t>>]
IndexValue(ts) == [k |-> "index", v |-> ts]
Raised == [k |-> "raise", v |-> <<>>]

\* Python truthiness of the values above
Truthy(x) ==
    \/ x.k \in {"date", "text", "ts"}
    \/ x.k = "tuple" /\ x.v # <<>>

\* truthiness of the widget's return value, line 114
InputTruthy(dr) ==
    CASE dr.form = "none" -> FALSE
      [] dr.form = "scalar" -> Truthy(dr.items[1])
      [] OTHER -> dr.items # <<>>

\* pd.to_datetime on a scalar or a sequence
to_datetime(x) ==
    CASE x.k = "date" -> TimestampValue(x.v[1] * HoursPerDay)
      [] x.k = "tuple" -> IndexValue([i \in 1..Len(x.v) |-> x.v[i] * HoursPerDay])
      [] x.k \in {"ts", "index", "none"} -> x
      [] OTHER -> Raised

\* lines 113-120: the pair (start_date, end_date) before conversion
SplitRange(dr) ==
    IF ~InputTruthy(dr) THEN <<NoneValue, NoneValue>>
    ELSE IF dr.form = "list" /\ Len(dr.items) = 2 THEN <<dr.items[1], dr.items[2]>>
    ELSE IF dr.form = "list" /\ Len(dr.items) = 1 THEN <<dr.items[1], dr.items[1]>>
    ELSE IF dr.form = "tuple" THEN <<TupleValue(dr.items), TupleValue(dr.items)>>
    ELSE <<dr.items[1], dr.items[1]>>

\* lines 122-125 on one of the two
ConvertIfTruthy(x) == IF Truthy(x) THEN to_datetime(x) ELSE x

-----------------------------------------------------------------------------
(* Filtering, lines 128-161 *)

Reverse(s) == [i \in 1..Len(s) |-> s[Len(s) + 1 - i]]

\* a variant of IsIn that returns the matching rows last row first
IsIn_Reversed(tbl, col, values) ==
    LET Keep(r) == r.cells[col] \in values
    IN Reverse(SelectSeq(tbl, Keep))

\* a variant of IsIn that loses the first matching row
IsIn_SkipsFirst(tbl, col, values) ==
    LET Keep(r) == r.cells[col] \in values
        kept == SelectSeq(tbl, Keep)
    IN IF kept = <<>> THEN kept ELSE Tail(kept)

\* frame[frame[col].isin(values)]
IsIn(tbl, col, values) ==
    LET Keep(r) == r.cells[col] \in values
    IN SelectSeq(tbl, Keep)

\* a variant of CategoricalStep without the "if selection:" guard
CategoricalStep_Unguarded(tbl, col, values) == IsIn(tbl, col, values)

\* one "if selection: filtered = ..." step, lines 130-143
CategoricalStep(tbl, col, values) ==
    IF values # {} THEN IsIn(tbl, col, values) ELSE tbl

ApplyCategorical(tbl, s) ==
    LET f1 == CategoricalStep(tbl, "Priority", s["Priority"])
        f2 == CategoricalStep(f1, "TicketTypeShort", s["TicketTypeShort"])
        f3 == CategoricalStep(f2, "Resolution Status", s["Resolution Status"])
        f4 == CategoricalStep(f3, "Status", s["Status"])
    IN CategoricalStep(f4, "Shift Timing", s["Shift Timing"])

\* Series.between(lo, hi): inclusive on both sides, NaT is never between
Between(cell, lo, hi) == cell # NaT /\ lo <= Hours(cell[1]) /\ Hours(cell[1]) <= hi

\* lines 153-156: a sized non-Timestamp value is replaced by its first element
FirstIfSized(x) == IF x.k = "index" THEN TimestampValue(x.v[1]) ELSE x

\* lines 146-161: the frame after the date filter and whether st.error ran
DateFilter(tbl, cols, sdate, edate) ==
    IF sdate.k = "none" \/ "Created Time" \notin cols
    THEN [tbl |-> tbl, warned |-> FALSE]
    ELSE LET sd0 == to_datetime(sdate)
             ed0 == IF sd0 = Raised THEN Raised
                    ELSE IF edate.k # "none" THEN to_datetime(edate) ELSE sd0
         IN IF sd0 = Raised \/ ed0 = Raised
            THEN [tbl |-> tbl, warned |-> TRUE]
            ELSE LET sd == FirstIfSized(sd0)
                     ed == FirstIfSized(ed0)
                     Keep(r) == Between(r.cells["Created Time"], sd.v[1], ed.v[1])
                 IN [tbl |-> SelectSeq(tbl, Keep), warned |-> FALSE]

-----------------------------------------------------------------------------
(* KPIs, lines 165-167 *)

\* line 166 on one row
WithinSla(r) == ContainsNoCase(r.cells["Resolution Status"], T_Within)

\* round(100 * num / den, 2) in hundredths: to the nearest hundredth, a
\* tie to the even one
RoundPct(num, den) ==
    LET q == (10000 * num) \div den
        r2 == 2 * ((10000 * num) % den)
    IN IF r2 > den \/ (r2 = den /\ q % 2 = 1) THEN q + 1 ELSE q

\* sla_pct in hundredths of a percent
SlaPct(within, total) == IF total # 0 THEN RoundPct(within, total) ELSE 0

Summarize(tbl) ==
    LET total == Len(tbl)
        within == Cardinality({i \in 1..Len(tbl) : WithinSla(tbl[i])})
    IN [total |-> total, within_sla_count |-> within, sla_pct |-> SlaPct(within, total)]

-----------------------------------------------------------------------------
(* The run *)

NoSelection == [c \in FilterCols |-> {}]
NoOptions == [c \in FilterCols |-> <<>>]
NoKpi == [total |-> 0, within_sla_count |-> 0, sla_pct |-> 0]
NoInput == [form |-> "none", items |-> <<>>]

Blank ==
    /\ df = <<>>
    /\ dfCols = {}
    /\ opts = NoOptions
    /\ sel = NoSelection
    /\ daterange = NoInput
    /\ start_date = NoneValue
    /\ end_date = NoneValue
    /\ filtered = <<>>
    /\ warned = FALSE
    /\ kpi = NoKpi

Init ==
    /\ \E cols \in ColumnSets :
         \E rows \in SeqsUpTo(RowsOver(cols), RowCap(cols)) :
            file = [cols |-> cols, rows |-> rows]
    /\ Blank
    /\ pc = "load"

\* lines 40-78
Load ==
    /\ pc = "load"
    /\ df' = LoadFrame(file)
    /\ dfCols' = LoadedCols(file)
    /\ pc' = "widgets"
    /\ UNCHANGED <<file, opts, sel, daterange, start_date, end_date, filtered, warned, kpi>>

\* lines 80-110: the option lists are computed and each widget returns what
\* the operator has chosen among them.  The date input is offered only when
\* the Created Time column exists; what it returns is the caller's choice,
\* the default [min_date, max_date] of lines 106-108 being one such pair.
Widgets ==
    /\ pc = "widgets"
    /\ opts' = [c \in FilterCols |-> Options(df, c)]
    /\ \E priorities \in Choices(df, "Priority"), tt \in Choices(df, "TicketTypeShort"),
          sla \in Choices(df, "Resolution Status"), status_sel \in Choices(df, "Status"),
          shifts \in Choices(df, "Shift Timing") :
            sel' = [c \in FilterCols |->
                      CASE c = "Priority" -> priorities
                        [] c = "TicketTypeShort" -> tt
                        [] c = "Resolution Status" -> sla
                        [] c = "Status" -> status_sel
                        [] c = "Shift Timing" -> shifts]
    /\ IF "Created Time" \in dfCols
       THEN \E dr \in DateInputs \ {NoInput} : daterange' = dr
       ELSE daterange' = NoInput
    /\ pc' = "dates"
    /\ UNCHANGED <<file, df, dfCols, start_date, end_date, filtered, warned, kpi>>

\* lines 112-125; a conversion that raises here ends the run
FixDates ==
    /\ pc = "dates"
    /\ LET pair == SplitRange(daterange)
           sd == ConvertIfTruthy(pair[1])
           ed == IF sd = Raised THEN pair[2] ELSE ConvertIfTruthy(pair[2])
       IN IF sd = Raised \/ ed = Raised
          THEN /\ pc' = "crashed"
               /\ UNCHANGED <<start_date, end_date>>
          ELSE /\ start_date' = sd
               /\ end_date' = ed
               /\ pc' = "filter"
    /\ UNCHANGED <<file, df, dfCols, opts, sel, daterange, filtered, warned, kpi>>

\* lines 128-161
ApplyFilters ==
    /\ pc = "filter"
    /\ LET out == DateFilter(ApplyCategorical(df, sel), dfCols, start_date, end_date)
       IN /\ filtered' = out.tbl
          /\ warned' = out.warned
    /\ pc' = "kpis"
    /\ UNCHANGED <<file, df, dfCols, opts, sel, daterange, start_date, end_date, kpi>>

\* lines 165-177
KPIs ==
    /\ pc = "kpis"
    /\ kpi' = Summarize(filtered)
    /\ pc' = "done"
    /\ UNCHANGED <<file, df, dfCols, opts, sel, daterange, start_date, end_date, filtered, warned>>

\* the next interaction runs the script again from the top on the same sheet
Rerun ==
    /\ pc \in {"done", "crashed"}
    /\ df' = <<>>
    /\ dfCols' = {}
    /\ opts' = NoOptions
    /\ sel' = NoSelection
    /\ daterange' = NoInput
    /\ start_date' = NoneValue
    /\ end_date' = NoneValue
    /\ filtered' = <<>>
    /\ warned' = FALSE
    /\ kpi' = NoKpi
    /\ pc' = "load"
    /\ UNCHANGED file

Next == Load \/ Widgets \/ FixDates \/ ApplyFilters \/ KPIs \/ Rerun

Spec == Init /\ [][Next]_vars

-----------------------------------------------------------------------------
(* Vocabulary of the properties *)

\* the run has filtered
AfterFilter == pc \in {"kpis", "done"}

\* index labels of the rows that survived
Kept == {filtered[j].index : j \in 1..Len(filtered)}

\* the selection equals the whole option list of every filter (the default)
AllSelected == \A c \in FilterCols : sel[c] = Range(opts[c])

\* no date range reached the run
NoDateGiven == ~InputTruthy(daterange)

\* the day a timestamp falls on
DayOf(t) == Hours(t) \div HoursPerDay

\* the widget delivered a start/end pair of calendar dates d1, d2
IsDatePair(dr) ==
    /\ dr.form \in {"list", "tuple"}
    /\ Len(dr.items) = 2
    /\ dr.items[1].k = "date"
    /\ dr.items[2].k = "date"

\* membership test of one filter: r's value in column valueCol against the
\* selection made in the filter selCol
PassesField(r, valueCol, selCol) == sel[selCol] = {} \/ r.cells[valueCol] \in sel[selCol]

\* the filter that carries the selection of a categorical field
FilterOf(c) == IF c = "TicketType" THEN "TicketTypeShort" ELSE c

PassesCategorical(r) == \A c \in FilterCols : PassesField(r, c, c)

-----------------------------------------------------------------------------
(* C1 *)

\* C1 (as claimed): when every selection equals the full option list of its
\* filter and no date predicate is active, the filtered table is the whole
\* table, also for tables with null cells or an absent categorical column.
C1_AllSelectedIsNoOp ==
    (AfterFilter /\ AllSelected /\ NoDateGiven) => filtered = df

-----------------------------------------------------------------------------
(* C2 *)

\* C2 (as claimed): a row survives iff it passes every active predicate,
\* where for each of the five categorical fields (Priority, TicketType,
\* Resolution Status, Shift Timing, Status) an empty selection passes every
\* row and a non-empty one passes a row iff the row's value for that field
\* is in the selection.  The date predicate can only remove rows, and removes
\* none when no date range was given.
C2_RowValueInSelection ==
    AfterFilter =>
        \A i \in 1..Len(df) :
            LET passes == \A c \in CategoricalCols : PassesField(df[i], c, FilterOf(c))
            IN /\ df[i].index \in Kept => passes
               /\ (NoDateGiven /\ passes) => df[i].index \in Kept

\* C2 (amended): the same, with the ticket-type selection tested against the
\* row's shortened label TicketTypeShort instead of its TicketType.
C2_FilterColumnInSelection ==
    AfterFilter =>
        \A i \in 1..Len(df) :
            /\ df[i].index \in Kept => PassesCategorical(df[i])
            /\ (NoDateGiven /\ PassesCategorical(df[i])) => df[i].index \in Kept

\* a run where one filter has an empty selection, another a non-empty one,
\* the ticket-type filter among the latter, and some row was removed
C2_Witness ==
    /\ pc = "done"
    /\ sel["Priority"] = {}
    /\ sel["TicketTypeShort"] # {}
    /\ NoDateGiven
    /\ Len(filtered) >= 1
    /\ Len(filtered) < Len(df)

-----------------------------------------------------------------------------
(* C3 *)

\* C3 (as claimed): with a start/end pair of dates and a Created Time column,
\* a row that passes the categorical filters survives iff its Created Time is
\* present and falls on a day from the start day to the end day, at any time
\* of those days.
C3_InclusiveDayRange ==
    (AfterFilter /\ IsDatePair(daterange) /\ "Created Time" \in dfCols) =>
        \A i \in 1..Len(df) :
            PassesCategorical(df[i]) =>
                LET cell == df[i].cells["Created Time"]
                IN df[i].index \in Kept <=>
                      /\ cell # NaT
                      /\ daterange.items[1].v[1] <= DayOf(cell[1])
                      /\ DayOf(cell[1]) <= daterange.items[2].v[1]

-----------------------------------------------------------------------------
(* C4 *)

\* the one date of an input that supplies a single endpoint, as a set
SingleEndpoint(dr) ==
    LET dates == {i \in 1..Len(dr.items) : dr.items[i].k = "date"}
        nones == {i \in 1..Len(dr.items) : dr.items[i].k = "none"}
    IN IF dr.form # "none" /\ Cardinality(dates) = 1 /\ dates \cup nones = 1..Len(dr.items)
       THEN {dr.items[i].v[1] : i \in dates}
       ELSE {}

\* C4 (as claimed): when only one endpoint is supplied (start without end,
\* end without start, or a single value), the date predicate is applied with
\* both bounds equal to it and is not skipped: no surviving row lacks a
\* Created Time or was created on another day.
C4_SingleEndpointApplied ==
    (AfterFilter /\ "Created Time" \in dfCols) =>
        \A d \in SingleEndpoint(daterange) :
            \A j \in 1..Len(filtered) :
                LET cell == filtered[j].cells["Created Time"]
                IN cell # NaT /\ DayOf(cell[1]) = d

-----------------------------------------------------------------------------
(* C5 *)

\* the date input is malformed (an endpoint that is no date) or inconsistent
\* (a pair whose start is later than its end)
Malformed(dr) ==
    \/ \E i \in 1..Len(dr.items) : dr.items[i].k \in {"text", "false"}
    \/ IsDatePair(dr) /\ dr.items[1].v[1] > dr.items[2].v[1]

\* C5 (as claimed): on a malformed or inconsistent date input the run goes
\* on, the date predicate is skipped (the filtered table is the result of the
\* categorical predicates alone) and a warning is shown.
C5_MalformedRangeSkipped ==
    (Malformed(daterange) /\ "Created Time" \in dfCols /\ pc \notin {"dates", "filter"}) =>
        /\ pc # "crashed"
        /\ filtered = ApplyCategorical(df, sel)
        /\ warned

-----------------------------------------------------------------------------
(* C6 *)

\* C6: the filtered table is a subsequence of the loaded table: every row of
\* it is a row of the table with its values unchanged, no row occurs twice,
\* and the rows keep their relative order.
C6_Subsequence ==
    AfterFilter =>
        /\ \A j \in 1..Len(filtered) :
              /\ filtered[j].index \in 1..Len(df)
              /\ filtered[j] = df[filtered[j].index]
        /\ \A j \in 1..(Len(filtered) - 1) : filtered[j].index < filtered[j + 1].index

\* a run that kept two rows or more and removed one or more
C6_Witness ==
    /\ pc = "done"
    /\ Len(filtered) >= 2
    /\ Len(filtered) < Len(df)

-----------------------------------------------------------------------------
(* C7 *)

\* C7 (as claimed): after loading, each of the five categorical fields of
\* every row is present and holds text, and holds the empty text where the
\* source cell was null or the source column absent.
C7_NullBecomesEmptyText ==
    pc # "load" =>
        \A i \in 1..Len(df) : \A c \in CategoricalCols :
            /\ c \in DOMAIN df[i].cells
            /\ df[i].cells[c] \in Seq(0..127)
            /\ (c \notin file.cols \/ file.rows[i][c] = Missing) => df[i].cells[c] = T_empty

-----------------------------------------------------------------------------
(* C8 *)

\* the option list holds no value twice and is in lexicographic order
StrictlySorted(s) == \A j \in 1..(Len(s) - 1) : TextLess(s[j], s[j + 1])

\* C8 (as claimed): the option list of each categorical field is the set of
\* distinct values of that field in the unfiltered table without the
\* placeholder (the empty text, or the text a null cell is loaded as), in
\* lexicographic order and without duplicates, whatever the selections; the
\* rows holding the placeholder stay in the table.
C8_OptionsAreFieldValues ==
    pc \notin {"load", "widgets"} =>
        /\ \A c \in CategoricalCols :
              /\ Range(opts[FilterOf(c)]) = Unique(df, c) \ {T_empty, T_nan}
              /\ StrictlySorted(opts[FilterOf(c)])
        /\ Len(df) = Len(file.rows)

\* C8 (amended): the option list of each filter is the set of distinct values
\* of its filter column (Priority, TicketTypeShort, Resolution Status,
\* Status, Shift Timing) in the unfiltered table without the empty text and
\* without every value whose lower-case form is "nan", in lexicographic
\* order and without duplicates, whatever the selections; the rows holding
\* the removed values stay in the table.
C8_OptionsAreFilterColumnValues ==
    pc \notin {"load", "widgets"} =>
        /\ \A c \in FilterCols :
              /\ \A i \in 1..Len(df) :
                    LET v == df[i].cells[c]
                    IN v \in Range(opts[c]) <=> (v # T_empty /\ Lower(v) # T_nan)
              /\ Range(opts[c]) \subseteq Unique(df, c)
              /\ StrictlySorted(opts[c])
        /\ Len(df) = Len(file.rows)

\* a run whose table holds a null-loaded value and a value spelled "NAN", and
\* whose option lists hold two entries for one filter, after rows were removed
C8_Witness ==
    /\ pc = "done"
    /\ Len(opts["Status"]) = 1
    /\ T_NAN \in Unique(df, "Status")
    /\ Len(opts["Resolution Status"]) >= 2
    /\ T_nan \in Unique(df, "Priority")
    /\ Len(filtered) < Len(df)

-----------------------------------------------------------------------------
(* C9 *)

\* s holds pat somewhere, letter case ignored
HoldsIgnoringCase(s, pat) ==
    \E k \in 1..Len(s) :
        /\ k + Len(pat) - 1 <= Len(s)
        /\ \A j \in 1..Len(pat) : LowerChar(s[k + j - 1]) = LowerChar(pat[j])

RowsWithin == {j \in 1..Len(filtered) :
                  HoldsIgnoringCase(filtered[j].cells["Resolution Status"], T_Within)}

\* C9 (as claimed): total is the number of filtered rows, within_sla_count
\* the number of them whose Resolution Status contains "Within" whatever the
\* case (so at most total), and sla_pct is 0 for an empty table and
\* within_sla_count / total x 100 otherwise.
C9_ExactPercentage ==
    pc = "done" =>
        /\ kpi.total = Len(filtered)
        /\ kpi.within_sla_count = Cardinality(RowsWithin)
        /\ kpi.within_sla_count <= kpi.total
        /\ kpi.total = 0 => kpi.sla_pct = 0
        /\ kpi.total # 0 => kpi.sla_pct * kpi.total = 10000 * kpi.within_sla_count

\* C9 (amended): the same, with sla_pct being within_sla_count / total x 100
\* rounded to two decimals (at most half a hundredth away from it).
C9_RoundedPercentage ==
    pc = "done" =>
        /\ kpi.total = Len(filtered)
        /\ kpi.within_sla_count = Cardinality(RowsWithin)
        /\ kpi.within_sla_count <= kpi.total
        /\ kpi.total = 0 => kpi.sla_pct = 0
        /\ kpi.total # 0 =>
              LET err == kpi.sla_pct * kpi.total - 10000 * kpi.within_sla_count
              IN 2 * err <= kpi.total /\ -2 * err <= kpi.total

\* a run that counted a lower-case "within sla" row and whose percentage is
\* not a whole number of hundredths
C9_Witness ==
    /\ pc = "done"
    /\ kpi.total = 3
    /\ kpi.within_sla_count = 2
    /\ \E j \in 1..Len(filtered) : filtered[j].cells["Resolution Status"] = T_withinsla
    /\ kpi.sla_pct = 6667

-----------------------------------------------------------------------------
(* C10 *)

\* C10: filtering the filtered table again with the same selection and the
\* same date range gives the filtered table back.
C10_Idempotent ==
    AfterFilter =>
        DateFilter(ApplyCategorical(filtered, sel), dfCols, start_date, end_date).tbl = filtered

\* a run where a non-empty selection and the date filter both ran and kept
\* a row
C10_Witness ==
    /\ pc = "done"
    /\ sel["Shift Timing"] # {}
    /\ start_date.k = "ts"
    /\ "Created Time" \in dfCols
    /\ Len(filtered) >= 1

=============================================================================
